---- MODULE Spec2Model ----
(***************************************************************************)
(* Model of github.com/ikonglong/op-status: the code registry, the         *)
(* code <-> HTTP status tables, the Status value with its derivation       *)
(* operations and details bag, and the OpError causal-chain walk.          *)
(*                                                                         *)
(* Go strings are sequences of one-character strings, so that trimming and *)
(* formatting are computed character by character.  Go slices and arrays   *)
(* are 0-based; a sequence element i of the program is element i+1 here.   *)
(***************************************************************************)
EXTENDS Integers, Sequences, FiniteSets, TLC

\* ------------------------------------------------------------------------
\* Bounds of the model
\* ------------------------------------------------------------------------
\* number of Status objects the callers allocate
MaxHeap == 2
\* number of OpError objects the callers construct
MaxErrs == 1
\* number of wrapping layers put around an error before the chain walk
MaxWrap == 2
\* number of Status objects derived before retry advice is asked for
MaxAdvised == 1

\* ------------------------------------------------------------------------
\* strings
\* ------------------------------------------------------------------------
Whitespace == {" ", "\t", "\n", "\r"}

RECURSIVE TrimLeft(_)
TrimLeft(s) ==
  IF s # <<>> /\ Head(s) \in Whitespace THEN TrimLeft(Tail(s)) ELSE s

RECURSIVE TrimRight(_)
TrimRight(s) ==
  IF s # <<>> /\ s[Len(s)] \in Whitespace
  THEN TrimRight(SubSeq(s, 1, Len(s) - 1)) ELSE s

TrimSpaceLeftOnly(s) == TrimLeft(s)

\* strings.TrimSpace
TrimSpace(s) == TrimRight(TrimLeft(s))

Digits == <<"0", "1", "2", "3", "4", "5", "6", "7", "8", "9">>

RECURSIVE NatToStr(_)
NatToStr(n) ==
  IF n < 10 THEN <<Digits[n + 1]>>
  ELSE NatToStr(n \div 10) \o <<Digits[(n % 10) + 1]>>

\* the decimal numeral of an int, as %v and %d print it
Itoa(n) == IF n < 0 THEN <<"-">> \o NatToStr(0 - n) ELSE NatToStr(n)

\* operands of fmt.Sprintf: an int, a string, or a slice ([]any) of operands
IntOp(n) == [t |-> "int", i |-> n, s |-> <<>>, e |-> <<>>]
StrOp(str) == [t |-> "str", i |-> 0, s |-> str, e |-> <<>>]
SliceOp(elems) == [t |-> "slice", i |-> 0, s |-> <<>>, e |-> elems]

RECURSIVE FormatV(_)
RECURSIVE FormatElems(_, _)
\* the elements of a slice under %v, separated by one space
FormatElems(elems, k) ==
  IF k > Len(elems) THEN <<>>
  ELSE (IF k > 1 THEN <<" ">> ELSE <<>>) \o FormatV(elems[k])
         \o FormatElems(elems, k + 1)

\* an operand under the verb %v
FormatV(op) ==
  CASE op.t = "int" -> Itoa(op.i)
    [] op.t = "str" -> op.s
    [] op.t = "slice" -> <<"[">> \o FormatElems(op.e, 1) \o <<"]">>

\* the Go type name of an operand, as the %!(EXTRA ...) report prints it
TypeName(op) ==
  CASE op.t = "int" -> <<"i", "n", "t">>
    [] op.t = "str" -> <<"s", "t", "r", "i", "n", "g">>
    [] op.t = "slice" ->
         <<"[", "]", "o", "p", "s", "t", "a", "t", "u", "s", ".", "a", "n", "y">>

RECURSIVE FormatExtra(_, _, _)
\* the operands the format did not consume: type=value, comma separated
FormatExtra(a, k, first) ==
  IF k > Len(a) THEN <<>>
  ELSE (IF first THEN <<>> ELSE <<",", " ">>)
         \o TypeName(a[k]) \o <<"=">> \o FormatV(a[k])
         \o FormatExtra(a, k + 1, FALSE)

RECURSIVE SprintfFrom(_, _, _, _)
\* fmt.Sprintf restricted to the verb %v and the escape %%: i is the position
\* in the format, k the next operand
SprintfFrom(format, a, i, k) ==
  IF i > Len(format)
  THEN IF k <= Len(a)
       THEN <<"%", "!", "(", "E", "X", "T", "R", "A", " ">>
              \o FormatExtra(a, k, TRUE) \o <<")">>
       ELSE <<>>
  ELSE IF format[i] # "%"
       THEN <<format[i]>> \o SprintfFrom(format, a, i + 1, k)
       ELSE IF i = Len(format)
            THEN <<"%", "!", "(", "N", "O", "V", "E", "R", "B", ")">>
                   \o SprintfFrom(format, a, i + 1, k)
            ELSE IF format[i + 1] = "%"
                 THEN <<"%">> \o SprintfFrom(format, a, i + 2, k)
                 ELSE IF k > Len(a)
                      THEN <<"%", "!", format[i + 1], "(", "M", "I", "S", "S",
                             "I", "N", "G", ")">>
                             \o SprintfFrom(format, a, i + 2, k)
                      ELSE FormatV(a[k]) \o SprintfFrom(format, a, i + 2, k + 1)

Sprintf(format, a) == SprintfFrom(format, a, 1, 1)

\* ------------------------------------------------------------------------
\* Code registry
\* ------------------------------------------------------------------------
newCode(name, value) == [name |-> name, value |-> value]

CodeOK == newCode("OK", 0)
CodeCancelled == newCode("OperationCancelled", 1)
CodeUnknown == newCode("UnknownError", 2)
CodeInvalidArgument == newCode("InvalidArgument", 3)
CodeDeadlineExceeded == newCode("DeadlineExceeded", 4)
CodeNotFound == newCode("NotFound", 5)
CodeAlreadyExists == newCode("AlreadyExists", 6)
CodePermissionDenied == newCode("PermissionDenied", 7)
CodeUnauthenticated == newCode("Unauthenticated", 16)
CodeResourceExhausted == newCode("ResourceExhausted", 8)
CodeFailedPrecondition == newCode("FailedPrecondition", 9)
CodeAborted == newCode("OperationAborted", 10)
CodeOutOfRange == newCode("OutOfRange", 11)
CodeUnimplemented == newCode("OperationUnimplemented", 12)
CodeInternal == newCode("InternalError", 13)
CodeUnavailable == newCode("ServiceUnavailable", 14)
CodeDataLoss == newCode("DataLoss", 15)

\* the canonical codes, as the package declares them
CanonicalCodes ==
  {CodeOK, CodeCancelled, CodeUnknown, CodeInvalidArgument,
   CodeDeadlineExceeded, CodeNotFound, CodeAlreadyExists,
   CodePermissionDenied, CodeUnauthenticated, CodeResourceExhausted,
   CodeFailedPrecondition, CodeAborted, CodeOutOfRange, CodeUnimplemented,
   CodeInternal, CodeUnavailable, CodeDataLoss}

\* the zero value of Code
ZeroCode == [name |-> "", value |-> 0]

\* the codes in the order codeList's initializer appends them
codeListAppended ==
  <<CodeOK, CodeCancelled, CodeUnknown, CodeInvalidArgument,
    CodeDeadlineExceeded, CodeNotFound, CodeAlreadyExists,
    CodePermissionDenied, CodeUnauthenticated, CodeResourceExhausted,
    CodeFailedPrecondition, CodeAborted, CodeOutOfRange, CodeUnimplemented,
    CodeInternal, CodeUnavailable, CodeDataLoss>>

RECURSIVE InsertByValue(_, _)
InsertByValue(c, sorted) ==
  IF sorted = <<>> THEN <<c>>
  ELSE IF c.value < Head(sorted).value THEN <<c>> \o sorted
       ELSE <<Head(sorted)>> \o InsertByValue(c, Tail(sorted))

RECURSIVE SortByValue(_)
\* sort.Slice(list, func(i, j) bool { return list[i].value < list[j].value })
SortByValue(list) ==
  IF list = <<>> THEN <<>>
  ELSE InsertByValue(Head(list), SortByValue(Tail(list)))

codeListUnsorted == codeListAppended

\* codeList: all the codes, indexed by their values
codeList == SortByValue(codeListAppended)

\* ------------------------------------------------------------------------
\* package http
\* ------------------------------------------------------------------------
StatusOKHTTP == 200
StatusBadRequest == 400
StatusUnauthorized == 401
StatusForbidden == 403
StatusNotFoundHTTP == 404
StatusConflict == 409
StatusTooManyRequests == 429
StatusClientClosedRequest == 499
StatusInternalServerError == 500
StatusNotImplemented == 501
StatusServiceUnavailable == 503
StatusTimeout == 504

\* the keys of http.statusToName
statusToName ==
  {StatusOKHTTP, StatusBadRequest, StatusUnauthorized, StatusForbidden,
   StatusNotFoundHTTP, StatusConflict, StatusTooManyRequests,
   StatusClientClosedRequest, StatusInternalServerError,
   StatusNotImplemented, StatusServiceUnavailable, StatusTimeout}

IsDefinedByRange(statusCode) == statusCode >= 100 /\ statusCode <= 999

\* http.IsDefined
IsDefined(statusCode) == statusCode \in statusToName

\* codeToHTTPStatus
codeToHTTPStatus ==
  (CodeOK :> StatusOKHTTP) @@
  (CodeInvalidArgument :> StatusBadRequest) @@
  (CodeFailedPrecondition :> StatusBadRequest) @@
  (CodeOutOfRange :> StatusBadRequest) @@
  (CodeUnauthenticated :> StatusUnauthorized) @@
  (CodePermissionDenied :> StatusForbidden) @@
  (CodeNotFound :> StatusNotFoundHTTP) @@
  (CodeAborted :> StatusConflict) @@
  (CodeAlreadyExists :> StatusConflict) @@
  (CodeResourceExhausted :> StatusTooManyRequests) @@
  (CodeCancelled :> StatusClientClosedRequest) @@
  (CodeDataLoss :> StatusInternalServerError) @@
  (CodeUnknown :> StatusInternalServerError) @@
  (CodeInternal :> StatusInternalServerError) @@
  (CodeUnimplemented :> StatusNotImplemented) @@
  (CodeUnavailable :> StatusServiceUnavailable) @@
  (CodeDeadlineExceeded :> StatusTimeout)

\* Code.toHTTPStatus: a map read, the zero http.Status for a missing key
toHTTPStatus(c) ==
  IF c \in DOMAIN codeToHTTPStatus THEN codeToHTTPStatus[c] ELSE 0

\* ------------------------------------------------------------------------
\* Status
\* ------------------------------------------------------------------------
\* the nil Case and the nil details map
NoCase == "nil"
NilMap == 0

\* newStatus: a Status with the code, no case, no description, nil details
newStatus(code) ==
  [code |-> code, theCase |-> NoCase, description |-> <<>>,
   details |-> NilMap]

\* the zero value of Status
ZeroStatus == newStatus(ZeroCode)

\* statusList's initializer: one prototype per code of codeList
statusListInit == [i \in 1..Len(codeList) |-> newStatus(codeList[i])]

\* ------------------------------------------------------------------------
\* State
\* ------------------------------------------------------------------------
VARIABLES
  statusList,            \* the prototype registry, indexed by code value
  statusVars,            \* the exported StatusOK .. StatusDataLoss variables
  httpStatusToOpStatus,  \* the inverse table, http status -> Status
  heap,                  \* the Status objects allocated after initialization
  maps,                  \* the details maps allocated after initialization
  opErrors,              \* the OpError values constructed so far
  last                   \* the last call: its arguments and its outcome

vars == <<statusList, statusVars, httpStatusToOpStatus, heap, maps, opErrors,
          last>>

\* a *Status: into statusList, to an exported variable, or to a heap object
Ref(loc, idx) == [loc |-> loc, idx |-> idx]
NilRef == Ref("nil", 0)

Deref(r) ==
  CASE r.loc = "list" -> statusList[r.idx + 1]
    [] r.loc = "var" -> statusVars[r.idx]
    [] r.loc = "heap" -> heap[r.idx]

\* the details map of the Status a pointer refers to
DetailsRef(r) == Deref(r).details

\* Code.toStatus: a copy of the registry entry of the code
toStatus(c, list) == list[c.value + 1]

\* the initializers of StatusOK .. StatusDataLoss, keyed by code value
statusVarsInit(list) ==
  [v \in {c.value : c \in CanonicalCodes} |->
     toStatus(CHOOSE c \in CanonicalCodes : c.value = v, list)]

httpStatusToOpStatusNoConflict(sv) ==
  (StatusOKHTTP :> sv[CodeOK.value]) @@
  (StatusBadRequest :> sv[CodeInvalidArgument.value]) @@
  (StatusUnauthorized :> sv[CodeUnauthenticated.value]) @@
  (StatusForbidden :> sv[CodePermissionDenied.value]) @@
  (StatusNotFoundHTTP :> sv[CodeNotFound.value]) @@
  (StatusTooManyRequests :> sv[CodeResourceExhausted.value]) @@
  (StatusClientClosedRequest :> sv[CodeCancelled.value]) @@
  (StatusInternalServerError :> sv[CodeInternal.value]) @@
  (StatusNotImplemented :> sv[CodeUnimplemented.value]) @@
  (StatusServiceUnavailable :> sv[CodeUnavailable.value]) @@
  (StatusTimeout :> sv[CodeDeadlineExceeded.value])

\* the initializer of httpStatusToOpStatus: copies of the exported variables
httpStatusToOpStatusInit(sv) ==
  (StatusOKHTTP :> sv[CodeOK.value]) @@
  (StatusBadRequest :> sv[CodeInvalidArgument.value]) @@
  (StatusUnauthorized :> sv[CodeUnauthenticated.value]) @@
  (StatusForbidden :> sv[CodePermissionDenied.value]) @@
  (StatusNotFoundHTTP :> sv[CodeNotFound.value]) @@
  (StatusConflict :> sv[CodeAlreadyExists.value]) @@
  (StatusTooManyRequests :> sv[CodeResourceExhausted.value]) @@
  (StatusClientClosedRequest :> sv[CodeCancelled.value]) @@
  (StatusInternalServerError :> sv[CodeInternal.value]) @@
  (StatusNotImplemented :> sv[CodeUnimplemented.value]) @@
  (StatusServiceUnavailable :> sv[CodeUnavailable.value]) @@
  (StatusTimeout :> sv[CodeDeadlineExceeded.value])

\* the record of a call; the fields a call does not use keep these values
NoCall ==
  [op |-> "init", recv |-> NilRef, before |-> ZeroStatus, res |-> NilRef,
   panicked |-> FALSE, logged |-> FALSE, argInt |-> 0, argStr |-> <<>>,
   argCase |-> NoCase, argVal |-> "", err |-> <<>>]

Init ==
  /\ statusList = statusListInit
  /\ statusVars = statusVarsInit(statusListInit)
  /\ httpStatusToOpStatus = httpStatusToOpStatusInit(statusVarsInit(statusListInit))
  /\ heap = <<>>
  /\ maps = <<>>
  /\ opErrors = <<>>
  /\ last = NoCall

\* ------------------------------------------------------------------------
\* details maps: a Go map is a set of <<key, value>> pairs with unique keys
\* ------------------------------------------------------------------------
MapPut(m, key, value) == {p \in m : p[1] # key} \cup {<<key, value>>}

copyDetailsEmpty(details, ms) == {}

\* copyDetails: an empty map for a nil map, else a map with the same entries
copyDetails(details, ms) ==
  IF details = NilMap THEN {} ELSE ms[details]

\* ------------------------------------------------------------------------
\* derivation operations: each returns the Status it builds and the details
\* maps after the call (a fresh map is appended when copyDetails makes one)
\* ------------------------------------------------------------------------
Derived(st, ms) == [st |-> st, maps |-> ms]

WithDescriptionDropCase(s, description, ms) ==
  LET d == TrimSpace(description) IN
  IF s.description = d THEN Derived(s, ms)
  ELSE Derived([code |-> s.code, theCase |-> NoCase, description |-> d,
                details |-> Len(ms) + 1],
               Append(ms, copyDetails(s.details, ms)))

\* Status.WithDescription
WithDescription(s, description, ms) ==
  LET d == TrimSpace(description) IN
  IF s.description = d THEN Derived(s, ms)
  ELSE Derived([code |-> s.code, theCase |-> s.theCase, description |-> d,
                details |-> Len(ms) + 1],
               Append(ms, copyDetails(s.details, ms)))

\* Status.WithDescriptionf: the variadic operands reach Sprintf as ONE
\* operand, the slice fmtArgs itself
WithDescriptionf(s, descFmt, fmtArgs, ms) ==
  WithDescription(s, Sprintf(descFmt, <<SliceOp(fmtArgs)>>), ms)

\* Status.AugmentDescription
AugmentDescription(s, additionalDetail, ms) ==
  IF additionalDetail = <<>> THEN Derived(s, ms)
  ELSE LET newMsg == IF s.description = <<>> THEN additionalDetail
                     ELSE s.description \o <<"\n">> \o additionalDetail
       IN WithDescription(s, newMsg, ms)

\* Status.WithCase: the new Status shares the receiver's details map
WithCase(s, theCase, ms) ==
  IF s.theCase = theCase THEN Derived(s, ms)
  ELSE Derived([code |-> s.code, theCase |-> theCase,
                description |-> s.description, details |-> s.details], ms)

\* Status.WithCaseAndDesc
WithCaseAndDesc(s, theCase, description, ms) ==
  LET d == TrimSpace(description) IN
  IF s.theCase = theCase /\ s.description = d THEN Derived(s, ms)
  ELSE Derived([code |-> s.code, theCase |-> theCase, description |-> d,
                details |-> Len(ms) + 1],
               Append(ms, copyDetails(s.details, ms)))

\* Status.WithCaseAndDescf
WithCaseAndDescf(s, theCase, descFmt, fmtArgs, ms) ==
  WithCaseAndDesc(s, theCase, Sprintf(descFmt, <<SliceOp(fmtArgs)>>), ms)

\* ------------------------------------------------------------------------
\* package error: error values and the chain walk
\* ------------------------------------------------------------------------
\* An error value is the sequence of the errors of its chain, outermost
\* first; the nil interface is the empty sequence.  Each element records its
\* dynamic type, the reflect.Kind of that type, whether the concrete value is
\* nil, and, for an *OpError, its status.  What follows an *OpError in the
\* sequence is its cause; what follows a *wrapError is what Unwrap returns.
ErrNode(dyn, kind, isNil, status) ==
  [dyn |-> dyn, kind |-> kind, isNil |-> isNil, status |-> status]

NilErr == <<>>
WrapNode == ErrNode("*fmt.wrapError", "Pointer", FALSE, NilRef)
PlainNode == ErrNode("*errors.errorString", "Pointer", FALSE, NilRef)
StructNode == ErrNode("structError", "Struct", FALSE, NilRef)
OpNode(status) == ErrNode("*OpError", "Pointer", FALSE, status)
\* error-typed values whose concrete value is nil
TypedNilNodes ==
  {ErrNode("*OpError", "Pointer", TRUE, NilRef),
   ErrNode("mapError", "Map", TRUE, NilRef),
   ErrNode("sliceError", "Slice", TRUE, NilRef),
   ErrNode("chanError", "Chan", TRUE, NilRef),
   ErrNode("funcError", "Func", TRUE, NilRef)}

NilableKinds ==
  {"Chan", "Func", "Map", "Pointer", "UnsafePointer", "Interface", "Slice"}

\* IsNil
IsNil(err) ==
  IF err = NilErr THEN TRUE
  ELSE IF Head(err).kind = "Invalid" THEN TRUE
       ELSE IF Head(err).kind \in NilableKinds THEN Head(err).isNil
            ELSE FALSE

\* the method sets of the OpError types: every method of OpError is declared
\* on the pointer receiver
MethodSet(type) ==
  CASE type = "*OpError" -> {"Status", "Cause", "Error"}
    [] type = "OpError" -> {}
    [] OTHER -> {"Error"}

ImplementsError(type) == "Error" \in MethodSet(type)

\* errors.Unwrap: the result of the Unwrap method when the type has one, else
\* nil; OpError declares Cause but no Unwrap
Unwrap(err) ==
  IF Head(err).dyn = "*fmt.wrapError" THEN Tail(err) ELSE NilErr

RECURSIVE asWalk(_, _)
\* the loop of errors.As: the first error of the chain assignable to the
\* target type
asWalk(err, targetType) ==
  IF err = NilErr THEN [match |-> FALSE, status |-> NilRef]
  ELSE IF Head(err).dyn = targetType
       THEN [match |-> TRUE, status |-> Head(err).status]
       ELSE asWalk(Unwrap(err), targetType)

\* AsOpError: errors.As(err, &opErr) with opErr of type OpError.  errors.As
\* panics unless the target's element type is an interface or implements
\* error.
AsOpError(err) ==
  IF ~ImplementsError("OpError")
  THEN [panicked |-> TRUE, match |-> FALSE, status |-> NilRef]
  ELSE [panicked |-> FALSE] @@ asWalk(err, "OpError")

RECURSIVE chainLoop(_)
\* the loop of StatusFromErrChain
chainLoop(cause) ==
  IF IsNil(cause) THEN [panicked |-> FALSE, status |-> NilRef]
  ELSE LET r == AsOpError(cause) IN
       IF r.panicked THEN [panicked |-> TRUE, status |-> NilRef]
       ELSE IF r.match THEN [panicked |-> FALSE, status |-> r.status]
            ELSE chainLoop(Unwrap(cause))

\* StatusFromErrChain
StatusFromErrChain(err) ==
  IF IsNil(err) THEN [panicked |-> FALSE, status |-> NilRef]
  ELSE chainLoop(err)

\* ------------------------------------------------------------------------
\* inputs of the calls
\* ------------------------------------------------------------------------
\* the format NewWithCodeValue passes to WithDescriptionf
UnknownCodeFmt ==
  <<"U", "n", "k", "n", "o", "w", "n", " ", "o", "p", " ", "s", "t", "a",
    "t", "u", "s", " ", "c", "o", "d", "e", ":", " ", "%", "v">>

UnknownCodePrefix == SubSeq(UnknownCodeFmt, 1, 24)

\* code values handed to NewWithCodeValue: every valid one and some invalid
CodeValueInputs == (0 - 2)..18 \cup {999}
\* status codes handed to NewByHTTPStatus: every defined one and some others
HTTPStatusInputs == statusToName \cup {0 - 1, 0, 100, 402, 502, 999}

\* the prototypes the callers derive from and mutate
CallerCodes == {CodeNotFound.value}
Descriptions == {<<>>, <<" ", " ", "h", "i", " ", " ">>}
AugmentTexts == {<<>>, <<" ">>, <<"x", "\n">>}
Cases == {NoCase, "purchase_limit_exceeded"}
Keys == {<<" ", "k", " ">>, <<" ", "\t">>}
Values == {"v1", "v2"}
\* the formatted calls: a format and its variadic operands
FmtCalls ==
  << [fmt |-> <<" ", "n", "=", "%", "v">>, args |-> <<IntOp(7)>>],
     [fmt |-> <<"h", "i">>, args |-> <<>>] >>
\* the maps handed to AddDetails
DetailMaps == { {<<<<" ", "k">>, "v1">>, <<<<"k">>, "v2">>, <<<<" ">>, "v1">>} }

HeapRefs == {Ref("heap", i) : i \in 1..Len(heap)}
PrototypeRefs ==
  {Ref("var", v) : v \in CallerCodes} \cup {Ref("list", v) : v \in CallerCodes}
Receivers == PrototypeRefs \cup HeapRefs

\* ------------------------------------------------------------------------
\* factories
\* ------------------------------------------------------------------------
Call(op) == [NoCall EXCEPT !.op = op]

\* NewWithCode: a pointer to the registry entry at the code's value
NewWithCode(code) ==
  /\ last' = [Call("NewWithCode") EXCEPT
                !.argInt = code.value, !.res = Ref("list", code.value)]
  /\ UNCHANGED <<statusList, statusVars, httpStatusToOpStatus, heap, maps,
                 opErrors>>

\* NewWithCodeValue
NewWithCodeValue(codeValue) ==
  IF codeValue < 0 \/ codeValue >= Len(statusList)
  THEN LET d == WithDescriptionf(statusVars[CodeUnknown.value],
                                 UnknownCodeFmt, <<IntOp(codeValue)>>, maps)
       IN /\ Len(heap) < MaxHeap
          /\ heap' = Append(heap, d.st)
          /\ maps' = d.maps
          /\ last' = [Call("NewWithCodeValue") EXCEPT
                        !.argInt = codeValue,
                        !.recv = Ref("var", CodeUnknown.value),
                        !.before = statusVars[CodeUnknown.value],
                        !.res = Ref("heap", Len(heap) + 1)]
          /\ UNCHANGED <<statusList, statusVars, httpStatusToOpStatus,
                         opErrors>>
  ELSE /\ last' = [Call("NewWithCodeValue") EXCEPT
                     !.argInt = codeValue, !.res = Ref("list", codeValue)]
       /\ UNCHANGED <<statusList, statusVars, httpStatusToOpStatus, heap,
                      maps, opErrors>>

\* NewByHTTPStatus: a pointer to a local copy; the log line is written when
\* the map read finds the key
NewByHTTPStatus(statusCode) ==
  LET found == statusCode \in DOMAIN httpStatusToOpStatus
      opStatus == IF ~IsDefined(statusCode) THEN statusVars[CodeUnknown.value]
                  ELSE IF found THEN httpStatusToOpStatus[statusCode]
                       ELSE ZeroStatus
  IN /\ Len(heap) < MaxHeap
     /\ heap' = Append(heap, opStatus)
     /\ last' = [Call("NewByHTTPStatus") EXCEPT
                   !.argInt = statusCode,
                   !.logged = IsDefined(statusCode) /\ found,
                   !.res = Ref("heap", Len(heap) + 1)]
     /\ UNCHANGED <<statusList, statusVars, httpStatusToOpStatus, maps,
                    opErrors>>

\* ------------------------------------------------------------------------
\* derivation calls on a receiver s: the result is a new heap object
\* ------------------------------------------------------------------------
Return(op, s, d) ==
  /\ Len(heap) < MaxHeap
  /\ heap' = Append(heap, d.st)
  /\ maps' = d.maps
  /\ UNCHANGED <<statusList, statusVars, httpStatusToOpStatus, opErrors>>

CallWithDescription(s, description) ==
  /\ Return("WithDescription", s, WithDescription(Deref(s), description, maps))
  /\ last' = [Call("WithDescription") EXCEPT
                !.recv = s, !.before = Deref(s), !.argStr = description,
                !.res = Ref("heap", Len(heap) + 1)]

CallWithDescriptionf(s, k) ==
  /\ Return("WithDescriptionf", s,
            WithDescriptionf(Deref(s), FmtCalls[k].fmt, FmtCalls[k].args, maps))
  /\ last' = [Call("WithDescriptionf") EXCEPT
                !.recv = s, !.before = Deref(s), !.argInt = k,
                !.argStr = FmtCalls[k].fmt,
                !.res = Ref("heap", Len(heap) + 1)]

CallAugmentDescription(s, additionalDetail) ==
  /\ Return("AugmentDescription", s,
            AugmentDescription(Deref(s), additionalDetail, maps))
  /\ last' = [Call("AugmentDescription") EXCEPT
                !.recv = s, !.before = Deref(s), !.argStr = additionalDetail,
                !.res = Ref("heap", Len(heap) + 1)]

CallWithCase(s, theCase) ==
  /\ Return("WithCase", s, WithCase(Deref(s), theCase, maps))
  /\ last' = [Call("WithCase") EXCEPT
                !.recv = s, !.before = Deref(s), !.argCase = theCase,
                !.res = Ref("heap", Len(heap) + 1)]

CallWithCaseAndDesc(s, theCase, description) ==
  /\ Return("WithCaseAndDesc", s,
            WithCaseAndDesc(Deref(s), theCase, description, maps))
  /\ last' = [Call("WithCaseAndDesc") EXCEPT
                !.recv = s, !.before = Deref(s), !.argCase = theCase,
                !.argStr = description, !.res = Ref("heap", Len(heap) + 1)]

CallWithCaseAndDescf(s, theCase, k) ==
  /\ Return("WithCaseAndDescf", s,
            WithCaseAndDescf(Deref(s), theCase, FmtCalls[k].fmt,
                             FmtCalls[k].args, maps))
  /\ last' = [Call("WithCaseAndDescf") EXCEPT
                !.recv = s, !.before = Deref(s), !.argCase = theCase,
                !.argInt = k, !.argStr = FmtCalls[k].fmt,
                !.res = Ref("heap", Len(heap) + 1)]

\* ------------------------------------------------------------------------
\* details
\* ------------------------------------------------------------------------
\* the Status and the details maps after one AddDetail
Added(panicked, st, ms) == [panicked |-> panicked, st |-> st, maps |-> ms]

addDetailLazyInit(st, key, value, ms) ==
  LET k == TrimSpace(key) IN
  IF k = <<>> THEN Added(FALSE, st, ms)
  ELSE IF st.details = NilMap
       THEN Added(FALSE, [st EXCEPT !.details = Len(ms) + 1],
                  Append(ms, {<<k, value>>}))
       ELSE Added(FALSE, st,
                  [ms EXCEPT ![st.details] = MapPut(@, k, value)])

\* the effect of Status.AddDetail on the receiver and on the details maps:
\* the receiver's fields are not assigned, the entry is written into the map
\* s.details refers to, and a write to a nil map panics
addDetail(st, key, value, ms) ==
  LET k == TrimSpace(key) IN
  IF k = <<>> THEN Added(FALSE, st, ms)
  ELSE IF st.details = NilMap THEN Added(TRUE, st, ms)
       ELSE Added(FALSE, st,
                  [ms EXCEPT ![st.details] = MapPut(@, k, value)])

RECURSIVE addDetails(_, _, _)
\* the loop of Status.AddDetails over the entries in the order of the range
addDetails(st, entries, ms) ==
  IF entries = <<>> THEN Added(FALSE, st, ms)
  ELSE LET r == addDetail(st, Head(entries)[1], Head(entries)[2], ms) IN
       IF r.panicked THEN r ELSE addDetails(r.st, Tail(entries), r.maps)

\* the orders in which a range over a map may visit its entries
RangeOrders(m) ==
  {sq \in [1..Cardinality(m) -> m] : \A e \in m : \E i \in DOMAIN sq : sq[i] = e}

\* the Status a pointer refers to after a method has run on it
Store(r, st) ==
  /\ statusList' = IF r.loc = "list"
                   THEN [statusList EXCEPT ![r.idx + 1] = st] ELSE statusList
  /\ statusVars' = IF r.loc = "var"
                   THEN [statusVars EXCEPT ![r.idx] = st] ELSE statusVars
  /\ heap' = IF r.loc = "heap" THEN [heap EXCEPT ![r.idx] = st] ELSE heap

AddDetail(s, key, value) ==
  LET r == addDetail(Deref(s), key, value, maps) IN
  /\ maps' = r.maps
  /\ Store(s, r.st)
  /\ last' = [Call("AddDetail") EXCEPT
                !.recv = s, !.before = Deref(s), !.argStr = key,
                !.argVal = value, !.panicked = r.panicked]
  /\ UNCHANGED <<httpStatusToOpStatus, opErrors>>

AddDetails(s, details) ==
  \E order \in RangeOrders(details) :
    LET r == addDetails(Deref(s), order, maps) IN
    /\ maps' = r.maps
    /\ Store(s, r.st)
    /\ last' = [Call("AddDetails") EXCEPT
                  !.recv = s, !.before = Deref(s), !.panicked = r.panicked]
    /\ UNCHANGED <<httpStatusToOpStatus, opErrors>>

\* ------------------------------------------------------------------------
\* OpError construction and the chain walk
\* ------------------------------------------------------------------------
\* the errors the callers wrap and pass around
BaseErrs ==
  {NilErr, <<PlainNode>>, <<StructNode>>} \cup {<<n>> : n \in TypedNilNodes}
    \cup {opErrors[i] : i \in 1..Len(opErrors)}

RECURSIVE Wrapped(_, _)
\* err inside n layers of wrapping
Wrapped(err, n) == IF n = 0 THEN err ELSE <<WrapNode>> \o Wrapped(err, n - 1)

ErrInputs == {Wrapped(e, n) : e \in BaseErrs, n \in 0..MaxWrap}

\* NewWithStatus: the OpError points to its own copy of the Status argument
NewWithStatus(s) ==
  /\ Len(heap) < MaxHeap
  /\ Len(opErrors) < MaxErrs
  /\ heap' = Append(heap, Deref(s))
  /\ opErrors' = Append(opErrors, <<OpNode(Ref("heap", Len(heap) + 1))>>)
  /\ last' = [Call("NewWithStatus") EXCEPT
                !.recv = s, !.before = Deref(s),
                !.res = Ref("heap", Len(heap) + 1)]
  /\ UNCHANGED <<statusList, statusVars, httpStatusToOpStatus, maps>>

\* NewWithStatusAndCause
NewWithStatusAndCause(s, cause) ==
  /\ Len(heap) < MaxHeap
  /\ Len(opErrors) < MaxErrs
  /\ heap' = Append(heap, Deref(s))
  /\ opErrors' = Append(opErrors,
                        <<OpNode(Ref("heap", Len(heap) + 1))>> \o cause)
  /\ last' = [Call("NewWithStatusAndCause") EXCEPT
                !.recv = s, !.before = Deref(s), !.err = cause,
                !.res = Ref("heap", Len(heap) + 1)]
  /\ UNCHANGED <<statusList, statusVars, httpStatusToOpStatus, maps>>

CallIsNil(err) ==
  /\ last' = [Call("IsNil") EXCEPT
                !.err = err, !.argVal = IF IsNil(err) THEN "true" ELSE "false"]
  /\ UNCHANGED <<statusList, statusVars, httpStatusToOpStatus, heap, maps,
                 opErrors>>

CallStatusFromErrChain(err) ==
  LET r == StatusFromErrChain(err) IN
  /\ last' = [Call("StatusFromErrChain") EXCEPT
                !.err = err, !.panicked = r.panicked, !.res = r.status]
  /\ UNCHANGED <<statusList, statusVars, httpStatusToOpStatus, heap, maps,
                 opErrors>>

\* ------------------------------------------------------------------------
\* specifications
\* ------------------------------------------------------------------------
\* the factories, over every code and every input value
NextFactories ==
  \/ \E c \in CanonicalCodes : NewWithCode(c)
  \/ \E v \in CodeValueInputs : NewWithCodeValue(v)
  \/ \E v \in HTTPStatusInputs : NewByHTTPStatus(v)

SpecFactories == Init /\ [][NextFactories]_vars

\* the life of Status values: factories, derivations and details
Next ==
  \/ \E c \in CanonicalCodes : c.value \in CallerCodes /\ NewWithCode(c)
  \/ \E v \in CallerCodes \cup {0 - 1} : NewWithCodeValue(v)
  \/ \E v \in {StatusNotFoundHTTP, 999} : NewByHTTPStatus(v)
  \/ \E s \in Receivers, d \in Descriptions : CallWithDescription(s, d)
  \/ \E s \in Receivers, k \in DOMAIN FmtCalls : CallWithDescriptionf(s, k)
  \/ \E s \in Receivers, d \in AugmentTexts : CallAugmentDescription(s, d)
  \/ \E s \in Receivers, c \in Cases : CallWithCase(s, c)
  \/ \E s \in Receivers, c \in Cases, d \in Descriptions :
       CallWithCaseAndDesc(s, c, d)
  \/ \E s \in Receivers, c \in Cases, k \in DOMAIN FmtCalls :
       CallWithCaseAndDescf(s, c, k)
  \/ \E s \in Receivers, k \in Keys, v \in Values : AddDetail(s, k, v)
  \/ \E s \in Receivers, m \in DetailMaps : AddDetails(s, m)

Spec == Init /\ [][Next]_vars

\* OpError construction and the chain walk
NextErr ==
  \/ \E s \in Receivers : NewWithStatus(s)
  \/ \E s \in Receivers, cause \in {NilErr, <<PlainNode>>} :
       NewWithStatusAndCause(s, cause)
  \/ \E err \in ErrInputs : CallIsNil(err)
  \/ \E err \in ErrInputs : CallStatusFromErrChain(err)

SpecErr == Init /\ [][NextErr]_vars

\* ------------------------------------------------------------------------
\* retry advice
\* ------------------------------------------------------------------------
JustRetryFailingCall == "just_retry_failing_call"
RetryAtHigherLevel == "retry_at_higher_level"
NotRetryUntilStateFixed == "not_retry_until_state_fixed"
NoAdvice == "no_advice"

RetryAdviceAbortedOnly(s) ==
  IF s.code = CodeUnavailable THEN JustRetryFailingCall
  ELSE IF s.code = CodeFailedPrecondition THEN NotRetryUntilStateFixed
       ELSE IF s.code = CodeAborted THEN RetryAtHigherLevel
            ELSE NoAdvice

\* Status.RetryAdvice
RetryAdvice(s) ==
  IF s.code = CodeUnavailable THEN JustRetryFailingCall
  ELSE IF s.code = CodeFailedPrecondition THEN NotRetryUntilStateFixed
       ELSE IF s.code = CodeAborted \/ s.code = CodeResourceExhausted
            THEN RetryAtHigherLevel
            ELSE NoAdvice

CallRetryAdvice(s) ==
  /\ last' = [Call("RetryAdvice") EXCEPT
                !.recv = s, !.before = Deref(s),
                !.argVal = RetryAdvice(Deref(s))]
  /\ UNCHANGED <<statusList, statusVars, httpStatusToOpStatus, heap, maps,
                 opErrors>>

\* the registry entry of every code, as NewWithCode returns it
RegistryRefs == {Ref("list", c.value) : c \in CanonicalCodes}

\* retry advice for the prototype of every code and for Statuses derived from
\* them with a case, a description and details
NextAdvice ==
  \/ \E s \in RegistryRefs, c \in Cases \ {NoCase},
        d \in Descriptions \ {<<>>} :
       Len(heap) < MaxAdvised /\ CallWithCaseAndDesc(s, c, d)
  \/ \E s \in HeapRefs, k \in Keys, v \in Values : AddDetail(s, k, v)
  \/ \E s \in RegistryRefs \cup HeapRefs : CallRetryAdvice(s)

SpecAdvice == Init /\ [][NextAdvice]_vars

\* every public operation, in any order
NextAll ==
  \/ Next
  \/ \E s \in Receivers : NewWithStatus(s)
  \/ \E s \in Receivers : NewWithStatusAndCause(s, <<PlainNode>>)
  \/ \E err \in {NilErr, <<PlainNode>>}
                   \cup {opErrors[i] : i \in DOMAIN opErrors} :
       CallIsNil(err) \/ CallStatusFromErrChain(err)
  \/ \E s \in Receivers : CallRetryAdvice(s)

SpecAll == Init /\ [][NextAll]_vars

\* ------------------------------------------------------------------------
\* Properties
\* ------------------------------------------------------------------------
\* the number of canonical codes
NumCodes == 17

DerivationOps ==
  {"WithDescription", "WithDescriptionf", "AugmentDescription", "WithCase",
   "WithCaseAndDesc", "WithCaseAndDescf"}

\* the entries of the details of a Status; a nil map has none
DetailsOf(st) == IF st.details = NilMap THEN {} ELSE maps[st.details]

\* C1: the registry holds exactly 17 codes with the unique contiguous values
\* 0..16, index i of codeList holds the code with value i, NewWithCode(c)
\* returns a Status whose code is c, and NewWithCodeValue(c.Value()) returns
\* the same Status as NewWithCode(c).
C1_RegistryLookup ==
  /\ Len(codeList) = NumCodes
  /\ Len(statusList) = NumCodes
  /\ Cardinality(CanonicalCodes) = NumCodes
  /\ {codeList[i] : i \in 1..Len(codeList)} = CanonicalCodes
  /\ {c.value : c \in CanonicalCodes} = 0..(NumCodes - 1)
  /\ \A i \in 0..(NumCodes - 1) : codeList[i + 1].value = i
  /\ \A c \in CanonicalCodes :
       /\ (last.op = "NewWithCode" /\ last.argInt = c.value) =>
            (~last.panicked /\ Deref(last.res).code = c)
       /\ (last.op = "NewWithCodeValue" /\ last.argInt = c.value) =>
            (/\ ~last.panicked
             /\ last.res = Ref("list", c.value)
             /\ Deref(last.res).code = c)

C1_Witness ==
  /\ last.op = "NewWithCodeValue"
  /\ last.argInt = CodeUnauthenticated.value
  /\ Deref(last.res).code = CodeUnauthenticated

\* C2: for every v outside [0, 17), NewWithCodeValue(v) does not fail and
\* returns a Status with code Unknown, no case, and the description
\* "Unknown op status code: " followed by the decimal numeral of v.
C2_UnknownCodeValue ==
  (last.op = "NewWithCodeValue"
     /\ (last.argInt < 0 \/ last.argInt >= NumCodes)) =>
    (/\ ~last.panicked
     /\ Deref(last.res).code = CodeUnknown
     /\ Deref(last.res).theCase = NoCase
     /\ Deref(last.res).description = UnknownCodePrefix \o Itoa(last.argInt))

\* the twelve recognized wire status values
RecognizedWire == {200, 400, 401, 403, 404, 409, 429, 499, 500, 501, 503, 504}

\* C3: for every v that is not a recognized wire status, NewByHTTPStatus(v)
\* does not fail and returns the Unknown prototype unmodified: code Unknown,
\* empty description, no case, no details.
C3_UndefinedWireStatus ==
  (last.op = "NewByHTTPStatus" /\ last.argInt \notin RecognizedWire) =>
    (/\ ~last.panicked
     /\ Deref(last.res).code = CodeUnknown
     /\ Deref(last.res).description = <<>>
     /\ Deref(last.res).theCase = NoCase
     /\ Deref(last.res).details = NilMap
     /\ Deref(last.res) = statusList[CodeUnknown.value + 1])

C3_Witness ==
  /\ last.op = "NewByHTTPStatus"
  /\ last.argInt = 999
  /\ Deref(last.res).code = CodeUnknown

\* a code whose wire status no other code shares
Unshared(c) ==
  \A c2 \in CanonicalCodes \ {c} : toHTTPStatus(c2) # toHTTPStatus(c)

\* C4: the code-to-wire mapping is total over the 17 codes, every wire status
\* in its image has an entry in the inverse table, and NewByHTTPStatus of the
\* wire status of a code c returns a prototype (empty description) whose code
\* maps to the same wire status: InvalidArgument for 400, AlreadyExists for
\* 409, Internal for 500, and c itself when the wire status is not shared.
C4_WireRoundTrip ==
  \A c \in CanonicalCodes :
    /\ c \in DOMAIN codeToHTTPStatus
    /\ toHTTPStatus(c) \in DOMAIN httpStatusToOpStatus
    /\ (last.op = "NewByHTTPStatus" /\ last.argInt = toHTTPStatus(c)) =>
         LET r == Deref(last.res) IN
         /\ ~last.panicked
         /\ r.description = <<>>
         /\ toHTTPStatus(r.code) = toHTTPStatus(c)
         /\ (last.argInt = 400 => r.code = CodeInvalidArgument)
         /\ (last.argInt = 409 => r.code = CodeAlreadyExists)
         /\ (last.argInt = 500 => r.code = CodeInternal)
         /\ (Unshared(c) => r.code = c)

C4_Witness ==
  /\ last.op = "NewByHTTPStatus"
  /\ last.argInt = toHTTPStatus(CodeAborted)
  /\ Deref(last.res).code = CodeAlreadyExists

\* an error value that is absent: the nil interface or a nil concrete value
Absent(err) == err = NilErr \/ Head(err).isNil

RECURSIVE FirstOpError(_)
\* the status of the first *OpError met when following Unwrap from err, or
\* nil when the chain ends first
FirstOpError(err) ==
  IF Absent(err) THEN NilRef
  ELSE IF Head(err).dyn = "*OpError" THEN Head(err).status
       ELSE FirstOpError(Unwrap(err))

\* C5: StatusFromErrChain(err) returns the status of the first OpError of the
\* chain of err, and nil when err is nil or the chain holds no OpError; on a
\* 3-level chain whose innermost error alone is an OpError it returns that
\* OpError's status.
C5_ChainWalk ==
  last.op = "StatusFromErrChain" =>
    (~last.panicked /\ last.res = FirstOpError(last.err))

RECURSIVE EndsInTypedNil(_)
\* a chain of wrappers that ends in an error whose concrete value is nil
EndsInTypedNil(err) ==
  /\ err # NilErr
  /\ \/ Head(err).isNil
     \/ Head(err).dyn = "*fmt.wrapError" /\ EndsInTypedNil(Unwrap(err))

\* C6: an error value whose concrete value is nil is absent: IsNil is true of
\* it, and StatusFromErrChain returns nil when it is the argument and when
\* it is an unwrapped cause further down the chain.
C6_TypedNilAbsent ==
  /\ (last.op = "IsNil" /\ last.err # NilErr /\ Head(last.err).isNil) =>
       last.argVal = "true"
  /\ (last.op = "StatusFromErrChain" /\ EndsInTypedNil(last.err)) =>
       (~last.panicked /\ last.res = NilRef)

\* C7: AddDetail(key, value) on any Status of the public API, with a key that
\* is not empty after trimming, completes and leaves the trimmed key mapped
\* to value; with a key that is empty after trimming it changes nothing.
C7_AddDetail ==
  [][last'.op = "AddDetail" =>
       IF TrimSpace(last'.argStr) # <<>>
       THEN /\ ~last'.panicked
            /\ DetailsRef(last.recv)' # NilMap
            /\ <<TrimSpace(last'.argStr), last'.argVal>>
                 \in maps'[DetailsRef(last.recv)']
       ELSE /\ ~last'.panicked
            /\ maps' = maps
            /\ heap' = heap]_vars

\* C8: details survive derivation: every detail of the receiver is a detail
\* of the Status returned by WithDescription, WithDescriptionf,
\* AugmentDescription, WithCase and WithCaseAndDesc.
C8_DetailsSurvive ==
  last.op \in {"WithDescription", "WithDescriptionf", "AugmentDescription",
               "WithCase", "WithCaseAndDesc"} =>
    \A e \in DetailsOf(Deref(last.recv)) : e \in DetailsOf(Deref(last.res))

C8_Witness ==
  /\ last.op = "WithDescription"
  /\ DetailsOf(Deref(last.recv)) # {}
  /\ Deref(last.res).description # Deref(last.recv).description

\* C9: a derivation leaves the receiver's code, case and description as they
\* were and returns a Status with the receiver's code; the fields the
\* operation does not name are the receiver's.
C9_DerivationFrame ==
  last.op \in DerivationOps =>
    LET s == Deref(last.recv)
        r == Deref(last.res) IN
    /\ s.code = last.before.code
    /\ s.theCase = last.before.theCase
    /\ s.description = last.before.description
    /\ r.code = last.before.code
    /\ (last.op \in {"WithDescription", "WithDescriptionf",
                     "AugmentDescription"} => r.theCase = last.before.theCase)
    /\ (last.op = "WithCase" => r.description = last.before.description)
    /\ DetailsOf(r) = DetailsOf(last.before)

C9_Witness ==
  /\ last.op = "WithDescription"
  /\ last.before.theCase # NoCase
  /\ Deref(last.res).description # last.before.description
  /\ Deref(last.res).theCase = last.before.theCase

Trimmed(d) ==
  d = <<>> \/ (Head(d) \notin Whitespace /\ d[Len(d)] \notin Whitespace)

\* every Status of the program: registry, exported variables, inverse table
\* and heap
AllStatuses ==
  {statusList[i] : i \in DOMAIN statusList}
    \cup {statusVars[v] : v \in DOMAIN statusVars}
    \cup {httpStatusToOpStatus[h] : h \in DOMAIN httpStatusToOpStatus}
    \cup {heap[i] : i \in DOMAIN heap}

\* C10: the description of every Status has no leading or trailing
\* whitespace; WithDescription("  hi  ") yields the description "hi".
C10_DescriptionTrimmed ==
  /\ \A st \in AllStatuses : Trimmed(st.description)
  /\ (last.op = "WithDescription"
        /\ last.argStr = <<" ", " ", "h", "i", " ", " ">>) =>
       Deref(last.res).description = <<"h", "i">>

C10_Witness ==
  /\ last.op = "AugmentDescription"
  /\ last.argStr = <<"x", "\n">>
  /\ last.before.description # <<>>
  /\ Deref(last.res).description = last.before.description \o <<"\n", "x">>

\* the advice the codes call for
AdviceOf(code) ==
  CASE code = CodeUnavailable -> "just_retry_failing_call"
    [] code = CodeFailedPrecondition -> "not_retry_until_state_fixed"
    [] code \in {CodeAborted, CodeResourceExhausted} -> "retry_at_higher_level"
    [] OTHER -> "no_advice"

\* C11: RetryAdvice depends on the code alone: just_retry_failing_call
\* exactly for Unavailable, not_retry_until_state_fixed exactly for
\* FailedPrecondition, retry_at_higher_level exactly for Aborted and
\* ResourceExhausted, no_advice for the other 13 codes, whatever the case,
\* the description and the details.
C11_RetryAdvice ==
  /\ Cardinality({c \in CanonicalCodes : AdviceOf(c) = "no_advice"}) = 13
  /\ \A st \in AllStatuses : RetryAdvice(st) = AdviceOf(st.code)
  /\ last.op = "RetryAdvice" => last.argVal = AdviceOf(Deref(last.recv).code)

C11_Witness ==
  /\ last.op = "RetryAdvice"
  /\ Deref(last.recv).code = CodeResourceExhausted
  /\ Deref(last.recv).theCase # NoCase
  /\ Deref(last.recv).description # <<>>
  /\ DetailsOf(Deref(last.recv)) # {}
  /\ last.argVal = "retry_at_higher_level"

FactoryOps == {"NewWithCode", "NewWithCodeValue", "NewByHTTPStatus"}

\* C12: NewWithCode, NewWithCodeValue and NewByHTTPStatus return a copy of
\* the prototype: the pointer returned is never a pointer to a registry entry
\* (nor to an exported variable), and it is an object no earlier call
\* returned.
C12_FactoryCopies ==
  [][last'.op \in FactoryOps =>
       /\ last'.res.loc # "list"
       /\ last'.res.loc # "var"
       /\ last'.res \notin HeapRefs]_vars

\* C13: the registry is read-only after initialization: after any sequence
\* of public operations every registry entry has its original code, an empty
\* description, no case and no details, and a factory call for a code yields
\* a Status without details.
C13_RegistryReadOnly ==
  /\ Len(statusList) = NumCodes
  /\ \A c \in CanonicalCodes :
       /\ statusList[c.value + 1].code = c
       /\ statusList[c.value + 1].description = <<>>
       /\ statusList[c.value + 1].theCase = NoCase
       /\ statusList[c.value + 1].details = NilMap
  /\ (last.op = "NewWithCode"
        \/ (last.op = "NewWithCodeValue" /\ last.res.loc = "list")) =>
       (Deref(last.res).details = NilMap /\ DetailsOf(Deref(last.res)) = {})

C13_Witness ==
  /\ last.op = "NewWithCode"
  /\ Len(opErrors) > 0
  /\ \E i \in DOMAIN heap :
       /\ heap[i].code = Deref(last.res).code
       /\ DetailsOf(heap[i]) # {}

\* C14: NewByHTTPStatus writes its log line ("not found op-status mapped to
\* given defined http status") only for a recognized wire status that has no
\* entry in the inverse table; for a recognized wire status with an entry,
\* and for an unrecognized value, it writes none.
C14_LogOnlyUnmapped ==
  last.op = "NewByHTTPStatus" =>
    (last.logged <=>
       (last.argInt \in RecognizedWire
          /\ last.argInt \notin DOMAIN httpStatusToOpStatus))

\* the details of the Status a pointer refers to
DetailsAt(r) == DetailsOf(Deref(r))

\* C15: a Status d returned by WithDescription, AugmentDescription, WithCase
\* or WithCaseAndDesc on a Status s owns its details: AddDetail on d leaves
\* the details of s as they were, and AddDetail on s leaves those of d.
C15_IndependentDetails ==
  [][(last.op \in {"WithDescription", "AugmentDescription", "WithCase",
                   "WithCaseAndDesc"}
        /\ last'.op = "AddDetail") =>
       \A s \in Receivers, d \in HeapRefs :
         (s = last.recv /\ d = last.res) =>
           /\ (last'.recv = d => DetailsAt(s)' = DetailsAt(s))
           /\ (last'.recv = s => DetailsAt(d)' = DetailsAt(d))]_vars

====
